---- MODULE Spec2Model ----
(***************************************************************************)
(* Model of gazebo::ContinuousTrackProperties                              *)
(* (include/gazebo_continuous_track/gazebo_continuous_track_properties.hpp)*)
(*                                                                         *)
(* A construction runs AssertPluginSDF, LoadSprocket, LoadTrajectory and   *)
(* LoadPattern on the element tree _sdf handed to the constructor.  Every  *)
(* thread of the process may run constructions; the function-local static  *)
(* fmt_seed of AssertPluginSDF is shared by all of them.                   *)
(*                                                                         *)
(* Conventions.  A child element that may be absent is a sequence of       *)
(* length 0 (absent) or 1 (present).  Scalars of the caller's tree are the *)
(* texts of the document; doubles are counted in thousandths.  GZ_ASSERT   *)
(* is taken as enabled: a failed assertion ends the construction.  A       *)
(* dereference of a null sdf::ElementPtr is undefined behaviour and is a   *)
(* choice between a crash of the process and a read of an arbitrary value. *)
(***************************************************************************)
EXTENDS Integers, Sequences, FiniteSets, TLC

(***************************************************************************)
(* Bounds of the model.                                                    *)
(***************************************************************************)
MaxSeg == 2
MaxElem == 2
MaxChildren == 2
MaxMut == 1

Procs == {1, 2}

(***************************************************************************)
(* The physics model: the joints _model->GetJoint can resolve and the type *)
(* bits Joint::GetType() reports for each of them.                         *)
(***************************************************************************)
NullJoint == "nullptr"

ModelJoints ==
  [ hinge  |-> {"JOINT", "HINGE_JOINT"},
    slider |-> {"JOINT", "SLIDER_JOINT"},
    ball   |-> {"JOINT", "BALL_JOINT"} ]

GetJoint(name) == IF name \in DOMAIN ModelJoints THEN name ELSE NullJoint

(* The type bits of a joint; none can be told for the null pointer. *)
GetType(joint) == IF joint \in DOMAIN ModelJoints THEN ModelJoints[joint] ELSE {}

(***************************************************************************)
(* Scalar texts of a document and their conversions (sdf::Element::Get<T>).*)
(* A text that does not convert yields T(), that is 0.                     *)
(***************************************************************************)
Missing == "<no element>"

JointTexts == {"hinge", "slider", "ball", "ghost"}

DoubleValue == ("-1" :> -1000) @@ ("0" :> 0) @@ ("0.001" :> 1) @@ ("2" :> 2000)
DoubleTexts == {"abc", "-1", "0", "0.001", "2"}

SizeValue == ("0" :> 0) @@ ("1" :> 1) @@ ("5" :> 5)
SizeTexts == {"abc", "0", "1", "5"}

IsDouble(text) == text \in DOMAIN DoubleValue
IsSize(text) == text \in DOMAIN SizeValue

GetDouble(text) == IF IsDouble(text) THEN DoubleValue[text] ELSE 0
GetSize(text) == IF IsSize(text) THEN SizeValue[text] ELSE 0

(***************************************************************************)
(* Documents: the element tree _sdf of a <plugin>.                         *)
(*   sprocket   : absent, or [joint, pitch_diameter]                       *)
(*   trajectory : absent, or the sequence of its <segment> children        *)
(*   pattern    : absent, or [elements_per_round, elements]; an element is *)
(*                the sequence of its <collision>/<visual> children in     *)
(*                document order, each an opaque subtree [name, text].     *)
(***************************************************************************)
Opt(S) == {<<>>} \cup {<<x>> : x \in S}

SeqsUpTo(S, n) == UNION {[1..m -> S] : m \in 0..n}

Sprockets == [joint : JointTexts \cup {Missing},
              pitch_diameter : {"abc", "0", "2", Missing}]

Segments == [joint : JointTexts \cup {Missing},
             end_position : {"abc", "-1", "0", "0.001", Missing}]

Trajectories == SeqsUpTo(Segments, MaxSeg)

ChildNames == SeqsUpTo({"collision", "visual"}, MaxChildren)

Label(i, k) == ToString(i) \o "." \o ToString(k)

Element(i, names) ==
  [k \in 1..Len(names) |-> [name |-> names[k], text |-> Label(i, k)]]

ElementLists ==
  {[i \in 1..Len(shape) |-> Element(i, shape[i])] :
     shape \in SeqsUpTo(ChildNames, MaxElem)}

Patterns == [elements_per_round : SizeTexts \cup {Missing},
             elements : ElementLists]

Doc(s, t, p) == [sprocket |-> s, trajectory |-> t, pattern |-> p]

EmptyDoc == Doc(<<>>, <<>>, <<>>)

RefSprocket == [joint |-> "hinge", pitch_diameter |-> "2"]
RefTrajectory == <<[joint |-> "slider", end_position |-> "0.001"]>>
RefPattern == [elements_per_round |-> "5",
               elements |-> <<Element(1, <<"collision">>)>>]

(* The documents a construction is given: the reference document with one  *)
(* of its three sections replaced by any section of the domain.            *)
Inputs ==
  {Doc(s, <<RefTrajectory>>, <<RefPattern>>) : s \in Opt(Sprockets)}
  \cup {Doc(<<RefSprocket>>, t, <<RefPattern>>) : t \in Opt(Trajectories)}
  \cup {Doc(<<RefSprocket>>, <<RefTrajectory>>, p) : p \in Opt(Patterns)}

(* The documents of the concurrent specification. *)
ConcInputs ==
  {Doc(<<s>>, <<t>>, <<p>>) :
     s \in {RefSprocket, [RefSprocket EXCEPT !.pitch_diameter = "abc"]},
     t \in {RefTrajectory, <<>>,
            RefTrajectory \o <<[joint |-> "hinge", end_position |-> "0.001"]>>},
     p \in {RefPattern, [RefPattern EXCEPT !.elements_per_round = "0"]}}

(***************************************************************************)
(* The plugin format sdf/continuous_track_plugin.sdf: which documents it   *)
(* accepts.  Required: sprocket{joint, pitch_diameter : double},           *)
(* trajectory{segment+ {joint, end_position : double}},                    *)
(* pattern{elements_per_round : unsigned, element+ {collision*, visual*}}. *)
(***************************************************************************)
SprocketConforms(s) ==
  /\ s # <<>>
  /\ s[1].joint # Missing
  /\ IsDouble(s[1].pitch_diameter)

TrajectoryConforms(t) ==
  /\ t # <<>>
  /\ Len(t[1]) >= 1
  /\ \A k \in 1..Len(t[1]) :
       t[1][k].joint # Missing /\ IsDouble(t[1][k].end_position)

PatternConforms(p) ==
  /\ p # <<>>
  /\ IsSize(p[1].elements_per_round)
  /\ Len(p[1].elements) >= 1

Conforms(d) ==
  /\ SprocketConforms(d.sprocket)
  /\ TrajectoryConforms(d.trajectory)
  /\ PatternConforms(d.pattern)

(***************************************************************************)
(* sdf::initFile on a new element: the format with no content yet.         *)
(***************************************************************************)
InitializedPluginSDF ==
  [sprocket |-> <<>>, segments |-> <<>>, elements_per_round |-> <<>>,
   elements |-> <<>>]

(***************************************************************************)
(* sdf::readString(text of d, target): fills target with the typed content *)
(* of d and returns whether d matches the format.  Single elements are     *)
(* set, repeated elements are appended to those target already holds.      *)
(***************************************************************************)
TypedSegment(g) ==
  [joint |-> g.joint, end_position |-> GetDouble(g.end_position)]

Filled(target, d) ==
  [sprocket |-> <<[joint |-> d.sprocket[1].joint,
                   pitch_diameter |-> GetDouble(d.sprocket[1].pitch_diameter)]>>,
   segments |-> target.segments \o
                [k \in 1..Len(d.trajectory[1]) |-> TypedSegment(d.trajectory[1][k])],
   elements_per_round |-> <<GetSize(d.pattern[1].elements_per_round)>>,
   elements |-> target.elements \o d.pattern[1].elements]

readString(d, target) ==
  IF Conforms(d)
  THEN [ok |-> TRUE, tree |-> Filled(target, d)]
  ELSE [ok |-> FALSE, tree |-> target]

(***************************************************************************)
(* Reads of the caller's tree.  _sdf->GetElement(f) of an element the tree *)
(* does not hold is a null pointer, and so is _sdf itself when the section *)
(* is absent; ->Get<T>() on it is undefined.                               *)
(***************************************************************************)
NullDeref(sdf, f) == sdf = <<>> \/ sdf[1][f] = Missing

ReadText(sdf, f, Garbage) ==
  IF NullDeref(sdf, f) THEN Garbage ELSE {sdf[1][f]}

Ok(v, q) == [kind |-> "ok", value |-> <<v>>, err |-> "", queried |-> q]
Fail(e, q) == [kind |-> "fail", value |-> <<>>, err |-> e, queried |-> q]
Crash(q) == [kind |-> "crash", value |-> <<>>, err |-> "", queried |-> q]

(***************************************************************************)
(* The conditions of the GZ_ASSERTs.                                       *)
(***************************************************************************)
JointAlwaysFound(joint) == TRUE
JointFound(joint) == joint # NullJoint

SprocketJointOk(joint) == "HINGE_JOINT" \in GetType(joint)

SegmentJointHingeOnly(joint) == "HINGE_JOINT" \in GetType(joint)
SegmentJointOk(joint) ==
  "HINGE_JOINT" \in GetType(joint) \/ "SLIDER_JOINT" \in GetType(joint)

EndPositionNotNegative(e) == e >= 0
EndPositionOk(e) == e > 0

ElementsPerRoundOk(n) == n > 0

(***************************************************************************)
(* LoadSprocket: the outcomes of the call.                                 *)
(***************************************************************************)
SprocketPitch(sdf, joint) ==
  {Ok([joint |-> joint, pitch_diameter |-> GetDouble(pt)], {joint}) :
     pt \in ReadText(sdf, "pitch_diameter", DoubleTexts)}
  \cup (IF NullDeref(sdf, "pitch_diameter") THEN {Crash({joint})} ELSE {})

SprocketJoint(sdf, joint) ==
  IF ~JointFound(joint)
  THEN {Fail("UnresolvedJointReference", {})}
  ELSE IF ~SprocketJointOk(joint)
  THEN {Fail("InvalidJointKind", {joint})}
  ELSE SprocketPitch(sdf, joint)

LoadSprocket(sdf) ==
  UNION {SprocketJoint(sdf, GetJoint(jt)) : jt \in ReadText(sdf, "joint", JointTexts)}
  \cup (IF NullDeref(sdf, "joint") THEN {Crash({})} ELSE {})

(***************************************************************************)
(* LoadTrajectory: the loop over the <segment> children.                   *)
(***************************************************************************)
RECURSIVE SegmentLoop(_, _, _, _)
SegmentLoop(segs, k, acc, q) ==
  IF k > Len(segs) THEN {Ok([segments |-> acc], q)}
  ELSE
    LET elem == <<segs[k]>>
        AfterEnd(joint, et) ==
          IF EndPositionOk(GetDouble(et))
          THEN SegmentLoop(segs, k + 1,
                 Append(acc, [joint |-> joint, end_position |-> GetDouble(et)]),
                 q \cup {joint})
          ELSE {Fail("InvalidNumericConstraint", q \cup {joint})}
        AfterJoint(joint) ==
          IF ~JointFound(joint)
          THEN {Fail("UnresolvedJointReference", q)}
          ELSE IF ~SegmentJointOk(joint)
          THEN {Fail("InvalidJointKind", q \cup {joint})}
          ELSE UNION {AfterEnd(joint, et) :
                        et \in ReadText(elem, "end_position", DoubleTexts)}
               \cup (IF NullDeref(elem, "end_position")
                     THEN {Crash(q \cup {joint})} ELSE {})
    IN  UNION {AfterJoint(GetJoint(jt)) : jt \in ReadText(elem, "joint", JointTexts)}
        \cup (IF NullDeref(elem, "joint") THEN {Crash(q)} ELSE {})

LoadTrajectory(sdf) ==
  IF sdf = <<>>
  THEN {Crash({}), Ok([segments |-> <<>>], {})}
  ELSE SegmentLoop(sdf[1], 1, <<>>, {})

(***************************************************************************)
(* Element pointers.  A stored sdf::ElementPtr points either into the      *)
(* caller's document (child k of pattern element i) or to an element this  *)
(* construction allocated (slot k of its clones).                          *)
(***************************************************************************)
DocRef(i, k) == [space |-> "doc", elem |-> i, child |-> k]
CloneRef(n) == [space |-> "clone", elem |-> 0, child |-> n]

(* Element::Clone(): a new element holding a copy of the subtree. *)
CloneShared(heap, ref, node) == [ptr |-> ref, heap |-> heap]
Clone(heap, ref, node) ==
  [ptr |-> CloneRef(Len(heap) + 1), heap |-> Append(heap, node)]

(* Element::GetElement / GetNextElement / HasElement on the children of a  *)
(* pattern element; 0 is the null pointer.                                 *)
Least(S) == IF S = {} THEN 0 ELSE CHOOSE x \in S : \A y \in S : x <= y

GetNextSibling(children, k, name) == IF k < Len(children) THEN k + 1 ELSE 0
GetNextElement(children, k, name) ==
  Least({j \in (k + 1)..Len(children) : children[j].name = name})

GetElement(children, name) == GetNextElement(children, 0, name)

HasElement(children, name) == \E j \in 1..Len(children) : children[j].name = name

RECURSIVE CloneLoop(_, _, _, _, _, _)
CloneLoop(children, i, k, name, heap, acc) ==
  IF k = 0 THEN [list |-> acc, heap |-> heap]
  ELSE LET c == Clone(heap, DocRef(i, k), children[k])
       IN  CloneLoop(children, i, GetNextElement(children, k, name), name,
                     c.heap, Append(acc, c.ptr))

CloneAll(children, i, name, heap) ==
  IF HasElement(children, name)
  THEN CloneLoop(children, i, GetElement(children, name), name, heap, <<>>)
  ELSE [list |-> <<>>, heap |-> heap]

RECURSIVE ElementLoop(_, _, _, _)
ElementLoop(elems, i, heap, acc) ==
  IF i > Len(elems) THEN [elements |-> acc, heap |-> heap]
  ELSE LET c == CloneAll(elems[i], i, "collision", heap)
           v == CloneAll(elems[i], i, "visual", c.heap)
       IN  ElementLoop(elems, i + 1, v.heap,
             Append(acc, [collision_sdfs |-> c.list, visual_sdfs |-> v.list]))

(***************************************************************************)
(* LoadPattern: the outcomes of the call; an ok outcome carries the        *)
(* pattern and the elements the call allocated.                            *)
(***************************************************************************)
PatternElements(sdf, n) ==
  IF ElementsPerRoundOk(n)
  THEN LET r == ElementLoop(IF sdf = <<>> THEN <<>> ELSE sdf[1].elements, 1, <<>>, <<>>)
       IN  {Ok([pattern |-> [elements_per_round |-> n, elements |-> r.elements],
                heap |-> r.heap], {})}
  ELSE {Fail("InvalidNumericConstraint", {})}

LoadPattern(sdf) ==
  UNION {PatternElements(sdf, GetSize(t)) :
           t \in ReadText(sdf, "elements_per_round", SizeTexts)}
  \cup (IF NullDeref(sdf, "elements_per_round") THEN {Crash({})} ELSE {})

(***************************************************************************)
(* AssertPluginSDF: the function-local static fmt_seed is initialized by   *)
(* the first call that reaches it (once, under the guard of the static);   *)
(* each call parses the caller's document into its own clone fmt of the    *)
(* seed.  The result of sdf::readString is not used and fmt is dropped     *)
(* when the function returns.                                              *)
(***************************************************************************)
StaticSeed(cur) ==
  IF cur = <<>>
  THEN [seed |-> InitializedPluginSDF, loaded |-> 1]
  ELSE [seed |-> cur[1], loaded |-> 0]

ParseIntoSeed(seed, d) ==
  [seed |-> readString(d, seed).tree, fmt |-> readString(d, seed).tree,
   ok |-> readString(d, seed).ok]
ParseIntoClone(seed, d) ==
  [seed |-> seed, fmt |-> readString(d, seed).tree, ok |-> readString(d, seed).ok]

(***************************************************************************)
(* State.                                                                  *)
(*   pc        where each thread's construction stands                     *)
(*   doc       the tree _sdf the constructor was given                     *)
(*   fmt       the local fmt of AssertPluginSDF after sdf::readString      *)
(*   readOk    what sdf::readString returned: "", "true" or "false"        *)
(*   props     the object under construction (<<>>: none exists)           *)
(*   err       the assertion that ended the construction                   *)
(*   log       the calls the constructor has made, in order                *)
(*   queried   the joints Joint::GetType() was called on                   *)
(*   clones    the elements the construction allocated with Clone()        *)
(*   muts      the number of edits made after the construction             *)
(*   fmt_seed  the static of AssertPluginSDF (<<>>: not yet initialized)   *)
(*   loads     the number of calls of InitializedPluginSDF                 *)
(***************************************************************************)
VARIABLES pc, doc, fmt, readOk, props, err, log, queried, clones, muts,
          fmt_seed, loads

vars == <<pc, doc, fmt, readOk, props, err, log, queried, clones, muts,
          fmt_seed, loads>>

NewObject == [sprocket |-> <<>>, trajectory |-> <<>>, pattern |-> <<>>]

Alive == \A p \in Procs : pc[p] # "crashed"

Init ==
  /\ pc = [p \in Procs |-> "idle"]
  /\ doc = [p \in Procs |-> EmptyDoc]
  /\ fmt = [p \in Procs |-> <<>>]
  /\ readOk = [p \in Procs |-> ""]
  /\ props = [p \in Procs |-> <<>>]
  /\ err = [p \in Procs |-> ""]
  /\ log = [p \in Procs |-> <<>>]
  /\ queried = [p \in Procs |-> {}]
  /\ clones = [p \in Procs |-> <<>>]
  /\ muts = [p \in Procs |-> 0]
  /\ fmt_seed = <<>>
  /\ loads = 0

(* A thread enters the constructor with a document of D. *)
Begin(p, D) ==
  /\ Alive
  /\ pc[p] = "idle"
  /\ pc' = [pc EXCEPT ![p] = "assert"]
  /\ \E d \in D : doc' = [doc EXCEPT ![p] = d]
  /\ props' = [props EXCEPT ![p] = <<NewObject>>]
  /\ UNCHANGED <<fmt, readOk, err, log, queried, clones, muts, fmt_seed, loads>>

(* AssertPluginSDF(_sdf); the constructor goes on whatever readString said. *)
AssertPluginSDF(p) ==
  /\ Alive
  /\ pc[p] = "assert"
  /\ LET s == StaticSeed(fmt_seed)
         r == ParseIntoClone(s.seed, doc[p])
     IN  /\ fmt_seed' = <<r.seed>>
         /\ loads' = loads + s.loaded
         /\ fmt' = [fmt EXCEPT ![p] = <<r.fmt>>]
         /\ readOk' = [readOk EXCEPT ![p] = IF r.ok THEN "true" ELSE "false"]
  /\ log' = [log EXCEPT ![p] = Append(@, "validate")]
  /\ pc' = [pc EXCEPT ![p] = "sprocket"]
  /\ UNCHANGED <<doc, props, err, queried, clones, muts>>

(* The end of a call of an extractor with outcome o: the member is         *)
(* assigned and the constructor goes on, or the construction ends and the  *)
(* object under construction is gone.                                      *)
Finish(p, o, member, value, next) ==
  /\ pc' = [pc EXCEPT ![p] = CASE o.kind = "ok" -> next
                               [] o.kind = "fail" -> "failed"
                               [] OTHER -> "crashed"]
  /\ props' = [props EXCEPT ![p] =
                 IF o.kind = "ok" THEN <<[@[1] EXCEPT ![member] = <<value>>]>>
                 ELSE <<>>]
  /\ err' = [err EXCEPT ![p] = o.err]
  /\ queried' = [queried EXCEPT ![p] = @ \cup o.queried]

(* sprocket = LoadSprocket(_model, _sdf->GetElement("sprocket")); *)
ConstructSprocket(p) ==
  /\ Alive
  /\ pc[p] = "sprocket"
  /\ \E o \in LoadSprocket(doc[p].sprocket) :
       Finish(p, o, "sprocket", IF o.kind = "ok" THEN o.value[1] ELSE <<>>,
              "trajectory")
  /\ log' = [log EXCEPT ![p] = Append(@, "sprocket")]
  /\ UNCHANGED <<doc, fmt, readOk, clones, muts, fmt_seed, loads>>

(* trajectory = LoadTrajectory(_model, _sdf->GetElement("trajectory")); *)
ConstructTrajectory(p) ==
  /\ Alive
  /\ pc[p] = "trajectory"
  /\ \E o \in LoadTrajectory(doc[p].trajectory) :
       Finish(p, o, "trajectory", IF o.kind = "ok" THEN o.value[1] ELSE <<>>,
              "pattern")
  /\ log' = [log EXCEPT ![p] = Append(@, "trajectory")]
  /\ UNCHANGED <<doc, fmt, readOk, clones, muts, fmt_seed, loads>>

(* pattern = LoadPattern(_model, _sdf->GetElement("pattern")); *)
ConstructPattern(p) ==
  /\ Alive
  /\ pc[p] = "pattern"
  /\ \E o \in LoadPattern(doc[p].pattern) :
       /\ Finish(p, o, "pattern",
                 IF o.kind = "ok" THEN o.value[1].pattern ELSE <<>>, "done")
       /\ clones' = [clones EXCEPT ![p] =
                       IF o.kind = "ok" THEN o.value[1].heap ELSE <<>>]
  /\ log' = [log EXCEPT ![p] = Append(@, "pattern")]
  /\ UNCHANGED <<doc, fmt, readOk, muts, fmt_seed, loads>>

(* ~ContinuousTrackProperties(), or the end of the failed construction:    *)
(* the thread is free for another construction.                            *)
Destroy(p) ==
  /\ Alive
  /\ pc[p] \in {"done", "failed"}
  /\ pc' = [pc EXCEPT ![p] = "idle"]
  /\ doc' = [doc EXCEPT ![p] = EmptyDoc]
  /\ fmt' = [fmt EXCEPT ![p] = <<>>]
  /\ readOk' = [readOk EXCEPT ![p] = ""]
  /\ props' = [props EXCEPT ![p] = <<>>]
  /\ err' = [err EXCEPT ![p] = ""]
  /\ log' = [log EXCEPT ![p] = <<>>]
  /\ queried' = [queried EXCEPT ![p] = {}]
  /\ clones' = [clones EXCEPT ![p] = <<>>]
  /\ muts' = [muts EXCEPT ![p] = 0]
  /\ UNCHANGED <<fmt_seed, loads>>

(***************************************************************************)
(* Edits after the construction: of a collision/visual subtree of the      *)
(* caller's document, or through a pointer the pattern stores.             *)
(***************************************************************************)
Edited == "edited"

DocElements(p) ==
  IF doc[p].pattern = <<>> THEN <<>> ELSE doc[p].pattern[1].elements

Deref(p, ptr) ==
  IF ptr.space = "clone" THEN clones[p][ptr.child]
  ELSE DocElements(p)[ptr.elem][ptr.child]

StoredPtrs(p) ==
  IF props[p] = <<>> \/ props[p][1].pattern = <<>> THEN {}
  ELSE LET es == props[p][1].pattern[1].elements
       IN  UNION {{es[i].collision_sdfs[k] : k \in 1..Len(es[i].collision_sdfs)}
                  \cup {es[i].visual_sdfs[k] : k \in 1..Len(es[i].visual_sdfs)} :
                    i \in 1..Len(es)}

EditDoc(p, i, k) ==
  doc' = [doc EXCEPT ![p].pattern[1].elements[i][k].text = Edited]

MutateSource(p) ==
  /\ Alive
  /\ pc[p] = "done"
  /\ muts[p] < MaxMut
  /\ \E i \in 1..Len(DocElements(p)) : \E k \in 1..Len(DocElements(p)[i]) :
       /\ DocElements(p)[i][k].text # Edited
       /\ EditDoc(p, i, k)
  /\ muts' = [muts EXCEPT ![p] = @ + 1]
  /\ UNCHANGED <<pc, fmt, readOk, props, err, log, queried, clones, fmt_seed, loads>>

MutateCopy(p) ==
  /\ Alive
  /\ pc[p] = "done"
  /\ muts[p] < MaxMut
  /\ \E ptr \in StoredPtrs(p) :
       /\ Deref(p, ptr).text # Edited
       /\ IF ptr.space = "clone"
          THEN /\ clones' = [clones EXCEPT ![p][ptr.child].text = Edited]
               /\ UNCHANGED doc
          ELSE /\ EditDoc(p, ptr.elem, ptr.child)
               /\ UNCHANGED clones
  /\ muts' = [muts EXCEPT ![p] = @ + 1]
  /\ UNCHANGED <<pc, fmt, readOk, props, err, log, queried, fmt_seed, loads>>

(***************************************************************************)
(* Spec: one thread constructs, again and again, from any input document.  *)
(* SpecConc: the threads construct side by side.                           *)
(***************************************************************************)
Next ==
  \/ Begin(1, Inputs)
  \/ AssertPluginSDF(1)
  \/ ConstructSprocket(1)
  \/ ConstructTrajectory(1)
  \/ ConstructPattern(1)
  \/ Destroy(1)
  \/ MutateSource(1)
  \/ MutateCopy(1)

Spec == Init /\ [][Next]_vars

NextConc ==
  \E p \in Procs :
    \/ Begin(p, ConcInputs)
    \/ AssertPluginSDF(p)
    \/ ConstructSprocket(p)
    \/ ConstructTrajectory(p)
    \/ ConstructPattern(p)
    \/ Destroy(p)
    \/ MutateSource(p)
    \/ MutateCopy(p)

SpecConc == Init /\ [][NextConc]_vars

(***************************************************************************)
(* Vocabulary of the properties.                                           *)
(***************************************************************************)
Ran(p, step) == \E i \in 1..Len(log[p]) : log[p][i] = step

LastCall(p) == IF log[p] = <<>> THEN "" ELSE log[p][Len(log[p])]

Ended(p) == pc[p] \in {"done", "failed", "crashed"}

FixedOrder == <<"validate", "sprocket", "trajectory", "pattern">>

IsPrefix(s, t) == Len(s) <= Len(t) /\ \A i \in 1..Len(s) : s[i] = t[i]

Rotational(name) == name \in {"hinge"}
Translational(name) == name \in {"slider"}
Known(name) == name \in {"hinge", "slider", "ball"}

(* The segments of the document of p (none when it has no trajectory). *)
DocSegments(p) == IF doc[p].trajectory = <<>> THEN <<>> ELSE doc[p].trajectory[1]

(* A segment no check of LoadTrajectory objects to. *)
SegmentPasses(g) ==
  /\ g.joint # Missing /\ (Rotational(g.joint) \/ Translational(g.joint))
  /\ g.end_position \in {"0.001", "2"}

(* The first segment that does not pass, 0 when all pass. *)
FirstStopper(segs) == Least({k \in 1..Len(segs) : ~SegmentPasses(segs[k])})

RequiredPresent(d) ==
  /\ d.sprocket # <<>>
  /\ d.sprocket[1].joint # Missing /\ d.sprocket[1].pitch_diameter # Missing
  /\ d.trajectory # <<>> /\ Len(d.trajectory[1]) >= 1
  /\ \A k \in 1..Len(d.trajectory[1]) :
       d.trajectory[1][k].joint # Missing /\ d.trajectory[1][k].end_position # Missing
  /\ d.pattern # <<>>
  /\ d.pattern[1].elements_per_round # Missing /\ Len(d.pattern[1].elements) >= 1

(* Every element an extractor reads with ->Get<T>() is in the document:    *)
(* no call dereferences a null element, whatever the document's scalars    *)
(* and however many segments and elements it has.                          *)
NoNullRead(d) ==
  /\ d.sprocket # <<>>
  /\ d.sprocket[1].joint # Missing /\ d.sprocket[1].pitch_diameter # Missing
  /\ d.trajectory # <<>>
  /\ \A k \in 1..Len(d.trajectory[1]) :
       d.trajectory[1][k].joint # Missing /\ d.trajectory[1][k].end_position # Missing
  /\ d.pattern # <<>>
  /\ d.pattern[1].elements_per_round # Missing

(* C1: a construction ends in one of two ways: it fails and no Properties  *)
(* is observable, or it yields a Properties whose sprocket joint is        *)
(* resolved and rotational, whose trajectory has at least one segment,     *)
(* each with a resolved rotational or translational joint and an           *)
(* end_position > 0, whose elements_per_round is > 0 and whose pattern has *)
(* at least one element; and every value it holds was given in the input.  *)
(* Stated for the documents that hold every element the extractors read.   *)
C1_ValidOrNothing ==
  \A p \in Procs : NoNullRead(doc[p]) =>
    /\ pc[p] \in {"failed", "crashed"} => props[p] = <<>>
    /\ pc[p] = "done" =>
         /\ props[p] # <<>>
         /\ LET o == props[p][1]
                d == doc[p]
            IN  /\ o.sprocket # <<>> /\ o.trajectory # <<>> /\ o.pattern # <<>>
                /\ Rotational(o.sprocket[1].joint)
                /\ Len(o.trajectory[1].segments) >= 1
                /\ \A k \in 1..Len(o.trajectory[1].segments) :
                     LET g == o.trajectory[1].segments[k]
                     IN  /\ Rotational(g.joint) \/ Translational(g.joint)
                         /\ g.end_position > 0
                /\ o.pattern[1].elements_per_round > 0
                /\ Len(o.pattern[1].elements) >= 1
                /\ RequiredPresent(d)
                /\ d.sprocket[1].joint = o.sprocket[1].joint
                /\ IsDouble(d.sprocket[1].pitch_diameter)
                /\ DoubleValue[d.sprocket[1].pitch_diameter] = o.sprocket[1].pitch_diameter
                /\ IsSize(d.pattern[1].elements_per_round)
                /\ SizeValue[d.pattern[1].elements_per_round]
                     = o.pattern[1].elements_per_round

(* C2: when the input does not match the format, AssertPluginSDF fails     *)
(* with a SchemaViolation, the construction is aborted, no Properties is   *)
(* produced and none of LoadSprocket, LoadTrajectory, LoadPattern runs.    *)
(* Stated for the documents that hold every element the extractors read.   *)
C2_SchemaViolationAborts ==
  \A p \in Procs : NoNullRead(doc[p]) =>
    /\ (Ran(p, "validate") /\ muts[p] = 0 /\ ~Conforms(doc[p])) => readOk[p] = "false"
    /\ readOk[p] = "false" =>
         /\ pc[p] = "failed" /\ err[p] = "SchemaViolation"
         /\ props[p] = <<>>
         /\ log[p] = <<"validate">>

(* C3: the calls of a construction are validate, sprocket, trajectory,     *)
(* pattern in this order, each after the one before it has succeeded, and  *)
(* after the first call that fails no later call is made.                  *)
(* Stated for the documents that hold every element the extractors read.   *)
C3_FixedOrderStopAtFirstFailure ==
  \A p \in Procs : NoNullRead(doc[p]) =>
    /\ IsPrefix(log[p], FixedOrder)
    /\ readOk[p] = "false" => log[p] = <<"validate">>
    /\ pc[p] \in {"failed", "crashed"} => LastCall(p) # ""

(* C4: the tree the extractors read is the tree validation produced (the   *)
(* format merged with the input), so that after a successful validation    *)
(* every required element an extractor reads is present.                   *)
(* Stated for the documents that hold every element the extractors read.   *)
C4_ExtractorsReadValidatedTree ==
  \A p \in Procs : NoNullRead(doc[p]) =>
    /\ Ran(p, "sprocket") =>
         /\ readOk[p] = "true"
         /\ fmt[p] # <<>>
         /\ RequiredPresent(doc[p])
         /\ fmt[p][1].sprocket =
              <<[joint |-> doc[p].sprocket[1].joint,
                 pitch_diameter |-> GetDouble(doc[p].sprocket[1].pitch_diameter)]>>
         /\ Len(fmt[p][1].segments) = Len(doc[p].trajectory[1])
         /\ Len(fmt[p][1].elements) = Len(doc[p].pattern[1].elements)
    /\ readOk[p] = "true" => pc[p] # "crashed" /\ RequiredPresent(doc[p])

(***************************************************************************)
(* C5 - C7: the checks of the extractors.                                  *)
(***************************************************************************)
JointGiven(text) == text # Missing

SprocketJointText(p) ==
  IF doc[p].sprocket = <<>> THEN Missing ELSE doc[p].sprocket[1].joint

ElementsPerRoundText(p) ==
  IF doc[p].pattern = <<>> THEN Missing ELSE doc[p].pattern[1].elements_per_round

BadKind(text) == Known(text) /\ ~Rotational(text) /\ ~Translational(text)

NotPositive(text) == IsDouble(text) /\ DoubleValue[text] <= 0

(* The first segment that does not pass, when the trajectory was reached. *)
Stopper(p) == IF Ran(p, "trajectory") THEN FirstStopper(DocSegments(p)) ELSE 0

StopperSegment(p) == DocSegments(p)[Stopper(p)]

FailedWith(p, e, call) ==
  pc[p] = "failed" /\ err[p] = e /\ LastCall(p) = call /\ props[p] = <<>>

(* C5 as stated: whenever the joint name of the sprocket or of any segment *)
(* does not resolve, the construction fails with UnresolvedJointReference. *)
(* Stated for the documents that match the format.                         *)
C5_AnyUnresolvedJointFails ==
  \A p \in Procs :
    (/\ Conforms(doc[p]) /\ Ended(p)
     /\ \/ ~Known(SprocketJointText(p))
        \/ \E k \in 1..Len(DocSegments(p)) : ~Known(DocSegments(p)[k].joint))
    => /\ pc[p] = "failed" /\ err[p] = "UnresolvedJointReference"
       /\ props[p] = <<>>
       /\ NullJoint \notin queried[p]

(* C5, amended: a sprocket joint name that does not resolve fails the      *)
(* construction with UnresolvedJointReference; a segment joint name that   *)
(* does not resolve keeps the construction from succeeding, and fails it   *)
(* with UnresolvedJointReference when its segment is the first that fails  *)
(* a check; no state is observable after the failure and GetType() is      *)
(* never called on an unresolved joint.                                    *)
C5_UnresolvedJointFails ==
  \A p \in Procs :
    /\ NullJoint \notin queried[p]
    /\ (Ran(p, "sprocket") /\ JointGiven(SprocketJointText(p))
          /\ ~Known(SprocketJointText(p)))
       => FailedWith(p, "UnresolvedJointReference", "sprocket")
    /\ (Stopper(p) # 0 /\ JointGiven(StopperSegment(p).joint)
          /\ ~Known(StopperSegment(p).joint))
       => FailedWith(p, "UnresolvedJointReference", "trajectory")
    /\ (\E k \in 1..Len(DocSegments(p)) :
          JointGiven(DocSegments(p)[k].joint) /\ ~Known(DocSegments(p)[k].joint))
       => pc[p] # "done"
    /\ err[p] = "UnresolvedJointReference" => pc[p] = "failed" /\ props[p] = <<>>

C5_Witness ==
  \E p \in Procs :
    /\ FailedWith(p, "UnresolvedJointReference", "trajectory")
    /\ Len(DocSegments(p)) = 2 /\ Stopper(p) = 2
    /\ DocSegments(p)[2].joint = "ghost"

(* C6 as stated: whenever the sprocket joint is not rotational, or some    *)
(* segment's joint is neither rotational nor translational, the            *)
(* construction fails with InvalidJointKind.  Stated for the documents     *)
(* that match the format.                                                  *)
C6_AnyBadKindFails ==
  \A p \in Procs :
    (/\ Conforms(doc[p]) /\ Ended(p)
     /\ \/ Known(SprocketJointText(p)) /\ ~Rotational(SprocketJointText(p))
        \/ \E k \in 1..Len(DocSegments(p)) : BadKind(DocSegments(p)[k].joint))
    => pc[p] = "failed" /\ err[p] = "InvalidJointKind"

(* C6, amended: a resolved sprocket joint that is not rotational fails the *)
(* construction with InvalidJointKind; a resolved segment joint that is    *)
(* neither rotational nor translational keeps the construction from        *)
(* succeeding, and fails it with InvalidJointKind when its segment is the  *)
(* first that fails a check; a rotational sprocket joint and rotational or *)
(* translational segment joints never fail with InvalidJointKind.          *)
C6_JointKindChecked ==
  \A p \in Procs :
    /\ (Ran(p, "sprocket") /\ Known(SprocketJointText(p))
          /\ ~Rotational(SprocketJointText(p)))
       => FailedWith(p, "InvalidJointKind", "sprocket")
    /\ (Stopper(p) # 0 /\ BadKind(StopperSegment(p).joint))
       => FailedWith(p, "InvalidJointKind", "trajectory")
    /\ (\E k \in 1..Len(DocSegments(p)) : BadKind(DocSegments(p)[k].joint))
       => pc[p] # "done"
    /\ err[p] = "InvalidJointKind" =>
         /\ pc[p] = "failed" /\ props[p] = <<>>
         /\ LastCall(p) \in {"sprocket", "trajectory"}
         /\ (LastCall(p) = "sprocket" /\ JointGiven(SprocketJointText(p)))
            => ~Rotational(SprocketJointText(p))
         /\ (LastCall(p) = "trajectory"
               /\ \A k \in 1..Len(DocSegments(p)) : JointGiven(DocSegments(p)[k].joint))
            => \E k \in 1..Len(DocSegments(p)) : BadKind(DocSegments(p)[k].joint)

C6_Witness ==
  \E p \in Procs :
    /\ FailedWith(p, "InvalidJointKind", "trajectory")
    /\ Len(DocSegments(p)) = 2 /\ Stopper(p) = 2
    /\ DocSegments(p)[1].joint = "slider"
    /\ DocSegments(p)[2].joint = "ball"

(* C7 as stated: whenever some segment has end_position <= 0 or            *)
(* elements_per_round is 0, the construction fails with                    *)
(* InvalidNumericConstraint.  Stated for the documents that match the      *)
(* format.                                                                 *)
C7_AnyNonPositiveFails ==
  \A p \in Procs :
    (/\ Conforms(doc[p]) /\ Ended(p)
     /\ \/ \E k \in 1..Len(DocSegments(p)) : NotPositive(DocSegments(p)[k].end_position)
        \/ ElementsPerRoundText(p) = "0")
    => pc[p] = "failed" /\ err[p] = "InvalidNumericConstraint"

(* C7, amended: a segment with end_position <= 0, or elements_per_round 0, *)
(* keeps the construction from succeeding, and fails it with               *)
(* InvalidNumericConstraint when it is the first check that fails; a       *)
(* positive end_position and an elements_per_round >= 1 pass and are       *)
(* stored exactly.                                                         *)
C7_NumericConstraints ==
  \A p \in Procs :
    /\ (/\ Stopper(p) # 0
        /\ Rotational(StopperSegment(p).joint) \/ Translational(StopperSegment(p).joint)
        /\ NotPositive(StopperSegment(p).end_position))
       => FailedWith(p, "InvalidNumericConstraint", "trajectory")
    /\ (Ran(p, "pattern") /\ ElementsPerRoundText(p) = "0")
       => FailedWith(p, "InvalidNumericConstraint", "pattern")
    /\ (\/ \E k \in 1..Len(DocSegments(p)) : NotPositive(DocSegments(p)[k].end_position)
        \/ ElementsPerRoundText(p) = "0")
       => pc[p] # "done"
    /\ err[p] = "InvalidNumericConstraint" =>
         /\ pc[p] = "failed" /\ props[p] = <<>>
         /\ LastCall(p) \in {"trajectory", "pattern"}
         /\ (LastCall(p) = "trajectory"
               /\ \A k \in 1..Len(DocSegments(p)) : IsDouble(DocSegments(p)[k].end_position))
            => \E k \in 1..Len(DocSegments(p)) : NotPositive(DocSegments(p)[k].end_position)
         /\ (LastCall(p) = "pattern" /\ IsSize(ElementsPerRoundText(p)))
            => ElementsPerRoundText(p) = "0"
    /\ pc[p] = "done" =>
         /\ \A k \in 1..Len(DocSegments(p)) :
              IsDouble(DocSegments(p)[k].end_position) =>
                props[p][1].trajectory[1].segments[k].end_position
                  = DoubleValue[DocSegments(p)[k].end_position]
         /\ IsSize(ElementsPerRoundText(p)) =>
              props[p][1].pattern[1].elements_per_round
                = SizeValue[ElementsPerRoundText(p)]

C7_Witness ==
  \E p \in Procs :
    /\ FailedWith(p, "InvalidNumericConstraint", "trajectory")
    /\ Len(DocSegments(p)) = 2 /\ Stopper(p) = 2
    /\ DocSegments(p)[1].end_position = "0.001"
    /\ DocSegments(p)[2].end_position = "0"

(***************************************************************************)
(* C8 - C9: what a finished construction stores.                           *)
(***************************************************************************)
Named(children, name) == SelectSeq(children, LAMBDA c : c.name = name)

Pointees(p, ptrs) == [k \in 1..Len(ptrs) |-> Deref(p, ptrs[k])]

StoredSegments(p) == props[p][1].trajectory[1].segments

StoredElements(p) == props[p][1].pattern[1].elements

(* C8: a finished construction holds one segment per <segment> of the      *)
(* input, in document order, one element per <element>, in document       *)
(* order, and in each element one collision and one visual entry per       *)
(* matching child, in the order met; elements_per_round is stored as given *)
(* whatever the number of elements.                                        *)
C8_OrderAndCardinality ==
  \A p \in Procs : pc[p] = "done" =>
    /\ doc[p].trajectory # <<>> =>
         /\ Len(StoredSegments(p)) = Len(DocSegments(p))
         /\ \A k \in 1..Len(DocSegments(p)) :
              /\ JointGiven(DocSegments(p)[k].joint) =>
                   StoredSegments(p)[k].joint = DocSegments(p)[k].joint
              /\ IsDouble(DocSegments(p)[k].end_position) =>
                   StoredSegments(p)[k].end_position
                     = DoubleValue[DocSegments(p)[k].end_position]
    /\ doc[p].pattern # <<>> =>
         /\ Len(StoredElements(p)) = Len(DocElements(p))
         /\ \A i \in 1..Len(DocElements(p)) :
              /\ Len(StoredElements(p)[i].collision_sdfs)
                   = Len(Named(DocElements(p)[i], "collision"))
              /\ Len(StoredElements(p)[i].visual_sdfs)
                   = Len(Named(DocElements(p)[i], "visual"))
              /\ muts[p] = 0 =>
                   /\ Pointees(p, StoredElements(p)[i].collision_sdfs)
                        = Named(DocElements(p)[i], "collision")
                   /\ Pointees(p, StoredElements(p)[i].visual_sdfs)
                        = Named(DocElements(p)[i], "visual")
         /\ IsSize(ElementsPerRoundText(p)) =>
              props[p][1].pattern[1].elements_per_round
                = SizeValue[ElementsPerRoundText(p)]

(* Two elements, the first with two collision children and no visual one,  *)
(* and elements_per_round = 5.                                             *)
C8_Witness ==
  \E p \in Procs :
    /\ pc[p] = "done" /\ muts[p] = 0 /\ doc[p].pattern # <<>>
    /\ Len(StoredElements(p)) = 2
    /\ Len(StoredElements(p)[1].collision_sdfs) = 2
    /\ Len(StoredElements(p)[1].visual_sdfs) = 0
    /\ Len(StoredElements(p)[2].visual_sdfs) = 1
    /\ props[p][1].pattern[1].elements_per_round = 5

(* C9: when the construction ends, every stored collision and visual       *)
(* subtree equals its source subtree of the input; afterwards an edit of a *)
(* source subtree changes no stored subtree, and an edit of a stored       *)
(* subtree changes no subtree of the input.                                *)
StoredEqualSource(p) ==
  \A i \in 1..Len(StoredElements(p)) :
    /\ Pointees(p, StoredElements(p)[i].collision_sdfs)
         = Named(DocElements(p)[i], "collision")
    /\ Pointees(p, StoredElements(p)[i].visual_sdfs)
         = Named(DocElements(p)[i], "visual")

StoredSubtrees(p) == {<<ptr, Deref(p, ptr)>> : ptr \in StoredPtrs(p)}

C9_CloneIsolation ==
  /\ [](\A p \in Procs : (pc[p] = "done" /\ muts[p] = 0) => StoredEqualSource(p))
  /\ [][\A p \in Procs :
          (pc[p] = "done" /\ pc'[p] = "done" /\ doc'[p] # doc[p])
            => StoredSubtrees(p)' = StoredSubtrees(p)]_vars

C9_Witness ==
  \E p \in Procs :
    /\ pc[p] = "done" /\ muts[p] > 0
    /\ \E ptr \in StoredPtrs(p) : Deref(p, ptr).text = Edited
    /\ \A i \in 1..Len(DocElements(p)) : \A k \in 1..Len(DocElements(p)[i]) :
         DocElements(p)[i][k].text # Edited

(* C10: over all the constructions of a process, one after another or      *)
(* side by side, InitializedPluginSDF is called at most once, no           *)
(* validation changes fmt_seed, and what a validation yields depends on    *)
(* its own input only.                                                     *)
C10_SeedLoadedOnceNeverChanged ==
  /\ loads <= 1
  /\ fmt_seed = <<>> <=> loads = 0
  /\ fmt_seed \in {<<>>, <<InitializedPluginSDF>>}
  /\ \A p \in Procs : (readOk[p] # "" /\ muts[p] = 0) =>
       /\ readOk[p] = "true" <=> Conforms(doc[p])
       /\ fmt[p] = <<IF Conforms(doc[p])
                     THEN Filled(InitializedPluginSDF, doc[p])
                     ELSE InitializedPluginSDF>>

C10_Witness ==
  /\ loads = 1
  /\ pc[1] = "pattern" /\ pc[2] = "trajectory"
  /\ readOk[1] = "true" /\ readOk[2] = "false"
====
